---------------------------- MODULE Spec2Model ----------------------------
(***************************************************************************)
(* Model of scripts/setup_eclipse.py: the generator of the eclipse         *)
(* .classpath, .project, .factorypath and .settings preference files.      *)
(*                                                                         *)
(* A Python string is a sequence of tokens.  The whitespace characters     *)
(* " " and "\n" are tokens of their own wherever the script produces or     *)
(* inspects them; every other token is a fragment of text that is copied   *)
(* whole.  Concatenation is \o, "sep".join(list) is Join, str.strip is     *)
(* strip.                                                                  *)
(* The script is Python 2 (#!/usr/bin/python, iter(readline, "")).         *)
(***************************************************************************)
EXTENDS Integers, Sequences, FiniteSets, TLC

VARIABLES
    pc,                  \* position of main: the step it performs next
    run,                 \* number of the current invocation of the script
    sys_argv,            \* sys.argv of the current invocation
    cwd,                 \* current working directory of the process
    dirs,                \* filesystem: the directories that exist
    files,               \* filesystem: path -> content of the files that exist
    workspace_directory, \* main's local
    trace,               \* external steps of the current invocation, in order
    bazel_genfiles,      \* build_classpath's local
    bazel_bin,           \* build_factorypath's local
    child,               \* the child process the last step spawned
    abortedAt,           \* the step whose uncaught exception ended the run
    prev,                \* snapshot taken when the current invocation began
    fn,                  \* document builder applied last (builder harness)
    entries,             \* its entry list
    name,                \* its project name
    doc                  \* the text it returned

vars == <<pc, run, sys_argv, cwd, dirs, files, workspace_directory, trace,
          bazel_genfiles, bazel_bin, child, abortedAt, prev,
          fn, entries, name, doc>>

mainVars == <<pc, run, sys_argv, cwd, dirs, files, workspace_directory, trace,
              bazel_genfiles, bazel_bin, child, abortedAt, prev>>

xmlVars == <<fn, entries, name, doc>>

-----------------------------------------------------------------------------
(* Bounds *)

MaxLines == 2      \* lines a bazel info child prints
MaxEntries == 3    \* entries handed to classpath_xml / factorypath_xml
MaxRuns == 2       \* invocations of the script in a row

-----------------------------------------------------------------------------
(* Strings *)

Whitespace == {" ", "\n"}

\* sep.join(list)
RECURSIVE Join(_, _)
Join(sep, list) ==
    IF list = <<>> THEN <<>>
    ELSE IF Len(list) = 1 THEN list[1]
    ELSE list[1] \o sep \o Join(sep, Tail(list))

RECURSIVE lstrip(_)
lstrip(s) == IF s # <<>> /\ Head(s) \in Whitespace THEN lstrip(Tail(s)) ELSE s

RECURSIVE rstrip(_)
rstrip(s) ==
    IF s # <<>> /\ s[Len(s)] \in Whitespace
    THEN rstrip(SubSeq(s, 1, Len(s) - 1))
    ELSE s

\* str.strip()
strip(s) == rstrip(lstrip(s))

IsPrefix(p, s) == Len(p) <= Len(s) /\ SubSeq(s, 1, Len(p)) = p

\* sequences over S of length at most n
SeqsUpTo(S, n) == UNION {[1..k -> S] : k \in 0..n}

-----------------------------------------------------------------------------
(* Document builders *)

XmlHeader == "<?xml version=\"1.0\" encoding=\"UTF-8\"?>"

classpath_entry_xml(kind, path) ==
    <<"<classpathentry kind=\"">> \o kind \o <<"\" path=\"">> \o path \o <<"\"/>">>

\* classpath_xml with the indentation left out of the join
classpath_xml_noindent(es) ==
    LET entries_xml ==
            Join(<<"\n">>,
                 [i \in DOMAIN es |-> classpath_entry_xml(es[i].kind, es[i].path)])
    IN  <<XmlHeader, "\n", "<classpath>", "\n">> \o entries_xml
            \o <<"\n", "</classpath>">>

\* classpath_xml with the version header left out of the envelope
classpath_xml_noheader(es) ==
    LET entries_xml ==
            Join(<<"\n">>,
                 [i \in DOMAIN es |->
                     <<" ", " ">> \o classpath_entry_xml(es[i].kind, es[i].path)])
    IN  <<"<classpath>", "\n">> \o entries_xml \o <<"\n", "</classpath>">>

classpath_xml(es) ==
    LET entries_xml ==
            Join(<<"\n">>,
                 [i \in DOMAIN es |->
                     <<" ", " ">> \o classpath_entry_xml(es[i].kind, es[i].path)])
    IN  <<XmlHeader, "\n", "<classpath>", "\n">> \o entries_xml
            \o <<"\n", "</classpath>">>

build_classpath(genfiles) ==
    classpath_xml(<<
        [kind |-> <<"con">>, path |-> <<"org.eclipse.jdt.launching.JRE_CONTAINER">>],
        [kind |-> <<"src">>, path |-> <<"java">>],
        [kind |-> <<"src">>, path |-> <<"javatests">>],
        [kind |-> <<"src">>, path |-> <<"bazel-genfiles/java">>],
        [kind |-> <<"lib">>,
         path |-> genfiles
                    \o <<"/java/google/registry/eclipse/eclipse_deps.jar">>],
        [kind |-> <<"output">>, path |-> <<"bin">>] >>)

TemplateHead == <<
    <<XmlHeader>>,
    <<"<projectDescription>">> >>

TemplateTail == <<
    <<"    <comment>">>,
    <<"    </comment>">>,
    <<"    <projects>">>,
    <<"    </projects>">>,
    <<"    <buildSpec>">>,
    <<"        <buildCommand>">>,
    <<"            <name>org.python.pydev.PyDevBuilder</name>">>,
    <<"            <arguments>">>,
    <<"            </arguments>">>,
    <<"        </buildCommand>">>,
    <<"        <buildCommand>">>,
    <<"            <name>org.eclipse.jdt.core.javabuilder</name>">>,
    <<"            <arguments>">>,
    <<"            </arguments>">>,
    <<"        </buildCommand>">>,
    <<"    </buildSpec>">>,
    <<"    <natures>">>,
    <<"        <nature>org.eclipse.jdt.core.javanature</nature>">>,
    <<"        <nature>org.python.pydev.pythonNature</nature>">>,
    <<"    </natures>">>,
    <<"</projectDescription>">> >>

build_project(project_name) ==
    Join(<<"\n">>,
         TemplateHead
            \o << <<" ", " ", " ", " ", "<name>">> \o project_name \o <<"</name>">> >>
            \o TemplateTail)

factorypath_entry_xml(kind, entry_id) ==
    <<"<factorypathentry kind=\"">> \o kind \o <<"\" id=\"">> \o entry_id
        \o <<"\" ", "enabled=\"true\" runInBatchMode=\"false\"/>">>

\* factorypath_xml with the newline before the closing tag left out
factorypath_xml_onenewline(es) ==
    LET entries_xml ==
            Join(<<"\n">>,
                 [i \in DOMAIN es |->
                     <<" ", " ">>
                        \o factorypath_entry_xml(es[i].kind, es[i].entry_id)])
    IN  <<"<factorypath>", "\n">> \o entries_xml \o <<"</factorypath>">>

factorypath_xml(es) ==
    LET entries_xml ==
            Join(<<"\n">>,
                 [i \in DOMAIN es |->
                     <<" ", " ">>
                        \o factorypath_entry_xml(es[i].kind, es[i].entry_id)])
    IN  <<"<factorypath>", "\n">> \o entries_xml \o <<"\n", "</factorypath>">>

-----------------------------------------------------------------------------
(* Paths and the filesystem *)

Roots == {"/ws", "/home"}

isabs(p) == p # <<>> /\ Head(p) \in Roots

\* os.path.join(a, b)
path_join(a, b) ==
    IF isabs(b) THEN b
    ELSE IF a = <<>> THEN b
    ELSE IF a[Len(a)] = "/" THEN a \o b
    ELSE a \o <<"/">> \o b

\* the file a path names, resolved against the current directory d
abspath(d, p) == IF isabs(p) THEN p ELSE path_join(<<d>>, p)

\* the directory that holds the file p (p is absolute, its last token a name)
dirname(p) == SubSeq(p, 1, Len(p) - 2)

\* open(p, "w") raises IOError unless the directory holding p exists
CanOpenForWrite(d, ds, p) == dirname(abspath(d, p)) \in ds

\* open(p, "a") in place of open(p, "w"): text is added to what the file holds
WriteFile_append(d, fs, p, text) ==
    [q \in DOMAIN fs \cup {abspath(d, p)} |->
        IF q = abspath(d, p)
        THEN (IF q \in DOMAIN fs THEN fs[q] ELSE <<>>) \o text
        ELSE fs[q]]

\* open(p, "w") followed by write(text): the file holds text and nothing else
WriteFile(d, fs, p, text) ==
    [q \in DOMAIN fs \cup {abspath(d, p)} |->
        IF q = abspath(d, p) THEN text ELSE fs[q]]

-----------------------------------------------------------------------------
(* Child processes *)

NoChild == [cmd |-> "none", started |-> FALSE, stdout |-> <<>>, returncode |-> 0]

\* the lines a bazel info child may print, each as readline returns it
Lines == { <<"\n">>, <<" ", "/ws", " ", "\n">> }

\* a child is the executable failing to start, or a process that prints
\* lines on its stdout and exits with a status
Children(cmd, outputs) ==
    {[cmd |-> cmd, started |-> FALSE, stdout |-> <<>>, returncode |-> 1]}
    \cup {[cmd |-> cmd, started |-> TRUE, stdout |-> o, returncode |-> r] :
                o \in outputs, r \in {0, 1}}

BuildChildren == Children("build", {<<>>})

InfoChildren == Children("info", SeqsUpTo(Lines, MaxLines))

\* subprocess.call in place of check_call: the exit status is dropped
check_call_ignores_status(c) == ~c.started

\* subprocess.check_call raises OSError when the executable cannot be
\* started and CalledProcessError when it exits nonzero
check_call_raises(c) == ~c.started \/ c.returncode # 0

\* bazel_info with the strip() left out of the comprehension
bazel_info_unstripped(c) ==
    IF ~c.started THEN [raised |-> TRUE, value |-> <<>>]
    ELSE IF c.stdout = <<>> THEN [raised |-> TRUE, value |-> <<>>]
    ELSE [raised |-> FALSE, value |-> c.stdout[1]]

\* bazel_info: Popen raises OSError when the executable cannot be started;
\* every line up to end of file is read and stripped; result[0] raises
\* IndexError on an empty list.  The exit status is never read.
bazel_info(c) ==
    IF ~c.started THEN [raised |-> TRUE, value |-> <<>>]
    ELSE LET res == [i \in DOMAIN c.stdout |-> strip(c.stdout[i])]
         IN  IF res = <<>> THEN [raised |-> TRUE, value |-> <<>>]
             ELSE [raised |-> FALSE, value |-> res[1]]

-----------------------------------------------------------------------------
(* main *)

\* a local of main that no assignment has reached yet
Unbound == <<"<unbound>">>

Script == <<"setup_eclipse.py">>

\* the command lines tried: no argument, one, two
Argvs == { <<Script>>, <<Script, <<"foo">>>>, <<Script, <<"foo">>, <<"bar">>>> }

\* sys.argv[-1] in place of sys.argv[1]
project_name_of_last(argv) ==
    IF Len(argv) > 1 THEN argv[Len(argv)] ELSE <<"domain-registry">>

\* sys.argv[1] is the second element of sys.argv
project_name_of(argv) ==
    IF Len(argv) > 1 THEN argv[2] ELSE <<"domain-registry">>

build_factorypath(bin) ==
    LET annotations_jar ==
            path_join(bin,
                <<"java/google/registry/eclipse/annotation_processors_ide_deploy.jar">>)
    IN  factorypath_xml(<<
            [kind |-> <<"PLUGIN">>,
             entry_id |-> <<"org.eclipse.jst.ws.annotations.core">>],
            [kind |-> <<"EXTJAR">>, entry_id |-> annotations_jar] >>)

\* the .settings directory taken under the queried workspace root
settings_directory_in_workspace(workspace) == path_join(workspace, <<".settings">>)

\* the directory main tests with os.path.exists and creates with os.makedirs
settings_directory(workspace) == <<".settings">>

\* os.path.exists(p), p resolved
path_exists(ds, fs, p) == p \in ds \/ p \in DOMAIN fs

\* os.makedirs(p) raises OSError when p exists
makedirs_raises(ds, fs, p) == p \in ds \/ p \in DOMAIN fs

jdt_core_prefs_path(workspace) ==
    path_join(path_join(workspace, <<".settings">>), <<"org.eclipse.jdt.core.prefs">>)

jdt_apt_prefs_path(workspace) ==
    path_join(path_join(workspace, <<".settings">>), <<"org.eclipse.jdt.apt.core.prefs">>)

jdt_core_prefs ==
    Join(<<"\n">>, <<
        <<"eclipse.preferences.version=1">>,
        <<"org.eclipse.jdt.core.compiler.processAnnotations=enabled">> >>)

jdt_apt_prefs ==
    Join(<<"\n">>, <<
        <<"eclipse.preferences.version=1">>,
        <<"org.eclipse.jdt.apt.aptEnabled=true">>,
        <<"org.eclipse.jdt.apt.genSrcDir=autogenerated">>,
        <<"org.eclipse.jdt.apt.reconcileEnabled=true">> >>)

\* the steps of main in program order
Order == <<"build_all", "build_eclipse_deps", "build_annotation_processors",
           "info_workspace", "info_genfiles", "write_classpath", "write_project",
           "info_bin", "write_factorypath", "makedirs_settings",
           "write_jdt_core_prefs", "write_jdt_apt_prefs">>

\* the statement that follows step s in main
after(s) ==
    LET i == CHOOSE j \in DOMAIN Order : Order[j] = s
    IN  IF i = Len(Order) THEN "done" ELSE Order[i + 1]

Snapshot ==
    [pc |-> pc, sys_argv |-> sys_argv, dirs |-> dirs, files |-> files,
     workspace_directory |-> workspace_directory,
     bazel_genfiles |-> bazel_genfiles, bazel_bin |-> bazel_bin]

NoFiles == [q \in {} |-> <<>>]

Init ==
    /\ pc = "build_all"
    /\ run = 1
    /\ sys_argv \in Argvs
    /\ cwd \in Roots
    /\ \E S \in SUBSET {<<r, "/", ".settings">> : r \in {cwd, "/ws"}} :
            dirs = {<<r>> : r \in Roots} \cup S
    /\ files = NoFiles
    /\ workspace_directory = Unbound
    /\ bazel_genfiles = Unbound
    /\ bazel_bin = Unbound
    /\ trace = <<>>
    /\ child = NoChild
    /\ abortedAt = "none"
    /\ prev = [pc |-> "none", sys_argv |-> <<>>, dirs |-> dirs, files |-> files,
               workspace_directory |-> Unbound,
               bazel_genfiles |-> Unbound, bazel_bin |-> Unbound]
    /\ fn = "none"
    /\ entries = <<>>
    /\ name = <<>>
    /\ doc = <<>>

\* an uncaught exception at step s ends the run
Abort(s) ==
    /\ pc' = "aborted"
    /\ abortedAt' = s

\* one subprocess.check_call of build_dependencies
Build(s) ==
    /\ pc = s
    /\ \E c \in BuildChildren :
        /\ child' = c
        /\ trace' = Append(trace, s)
        /\ IF check_call_raises(c)
           THEN Abort(s)
           ELSE pc' = after(s) /\ abortedAt' = abortedAt
    /\ UNCHANGED <<run, sys_argv, cwd, dirs, files, workspace_directory,
                   bazel_genfiles, bazel_bin, prev, xmlVars>>

BuildAll == Build("build_all")

BuildEclipseDeps == Build("build_eclipse_deps")

BuildAnnotationProcessors == Build("build_annotation_processors")

InfoWorkspace ==
    /\ pc = "info_workspace"
    /\ \E c \in InfoChildren :
        LET r == bazel_info(c) IN
        /\ child' = c
        /\ trace' = Append(trace, "info_workspace")
        /\ IF r.raised
           THEN Abort("info_workspace") /\ UNCHANGED workspace_directory
           ELSE /\ workspace_directory' = r.value
                /\ pc' = after("info_workspace")
                /\ abortedAt' = abortedAt
    /\ UNCHANGED <<run, sys_argv, cwd, dirs, files, bazel_genfiles, bazel_bin,
                   prev, xmlVars>>

InfoGenfiles ==
    /\ pc = "info_genfiles"
    /\ \E c \in InfoChildren :
        LET r == bazel_info(c) IN
        /\ child' = c
        /\ trace' = Append(trace, "info_genfiles")
        /\ IF r.raised
           THEN Abort("info_genfiles") /\ UNCHANGED bazel_genfiles
           ELSE /\ bazel_genfiles' = r.value
                /\ pc' = after("info_genfiles")
                /\ abortedAt' = abortedAt
    /\ UNCHANGED <<run, sys_argv, cwd, dirs, files, workspace_directory, bazel_bin,
                   prev, xmlVars>>

InfoBin ==
    /\ pc = "info_bin"
    /\ \E c \in InfoChildren :
        LET r == bazel_info(c) IN
        /\ child' = c
        /\ trace' = Append(trace, "info_bin")
        /\ IF r.raised
           THEN Abort("info_bin") /\ UNCHANGED bazel_bin
           ELSE /\ bazel_bin' = r.value
                /\ pc' = after("info_bin")
                /\ abortedAt' = abortedAt
    /\ UNCHANGED <<run, sys_argv, cwd, dirs, files, workspace_directory,
                   bazel_genfiles, prev, xmlVars>>

\* with open(path, "w") as f: f.write(text)
Write(s, path, text) ==
    /\ pc = s
    /\ child' = NoChild
    /\ trace' = Append(trace, s)
    /\ IF CanOpenForWrite(cwd, dirs, path)
       THEN /\ files' = WriteFile(cwd, files, path, text)
            /\ pc' = after(s)
            /\ abortedAt' = abortedAt
       ELSE Abort(s) /\ UNCHANGED files
    /\ UNCHANGED <<run, sys_argv, cwd, dirs, workspace_directory, bazel_genfiles,
                   bazel_bin, prev, xmlVars>>

WriteClasspath ==
    Write("write_classpath", path_join(workspace_directory, <<".classpath">>),
          build_classpath(bazel_genfiles))

WriteProject ==
    Write("write_project", path_join(workspace_directory, <<".project">>),
          build_project(project_name_of(sys_argv)))

WriteFactorypath ==
    Write("write_factorypath", path_join(workspace_directory, <<".factorypath">>),
          build_factorypath(bazel_bin))

MakedirsSettings ==
    LET d == abspath(cwd, settings_directory(workspace_directory)) IN
    /\ pc = "makedirs_settings"
    /\ child' = NoChild
    /\ trace' = Append(trace, "makedirs_settings")
    /\ IF path_exists(dirs, files, d)
       THEN /\ pc' = after("makedirs_settings")
            /\ UNCHANGED <<dirs, abortedAt>>
       ELSE IF makedirs_raises(dirs, files, d)
       THEN Abort("makedirs_settings") /\ UNCHANGED dirs
       ELSE /\ dirs' = dirs \cup {d}
            /\ pc' = after("makedirs_settings")
            /\ abortedAt' = abortedAt
    /\ UNCHANGED <<run, sys_argv, cwd, files, workspace_directory, bazel_genfiles,
                   bazel_bin, prev, xmlVars>>

WriteJdtCorePrefs ==
    Write("write_jdt_core_prefs", jdt_core_prefs_path(workspace_directory),
          jdt_core_prefs)

WriteJdtAptPrefs ==
    Write("write_jdt_apt_prefs", jdt_apt_prefs_path(workspace_directory),
          jdt_apt_prefs)

\* the script is run again with the same command line, in the same
\* directory, on the filesystem the run before it left
Rerun ==
    /\ pc \in {"done", "aborted"}
    /\ run < MaxRuns
    /\ run' = run + 1
    /\ prev' = Snapshot
    /\ pc' = "build_all"
    /\ workspace_directory' = Unbound
    /\ bazel_genfiles' = Unbound
    /\ bazel_bin' = Unbound
    /\ trace' = <<>>
    /\ child' = NoChild
    /\ abortedAt' = "none"
    /\ UNCHANGED <<sys_argv, cwd, dirs, files, xmlVars>>

Next ==
    \/ BuildAll
    \/ BuildEclipseDeps
    \/ BuildAnnotationProcessors
    \/ InfoWorkspace
    \/ InfoGenfiles
    \/ WriteClasspath
    \/ WriteProject
    \/ InfoBin
    \/ WriteFactorypath
    \/ MakedirsSettings
    \/ WriteJdtCorePrefs
    \/ WriteJdtAptPrefs
    \/ Rerun

Spec == Init /\ [][Next]_vars

-----------------------------------------------------------------------------
(* The document builders applied to arbitrary inputs *)

Kinds == { <<"src">>, <<"lib">> }

Values == { <<"java">>, <<"my", " ", "deps.jar">> }

\* an entry as the caller writes it, before it is given the key names the
\* builder expects
Inputs == [kind : Kinds, value : Values]

Names == { <<"foo">>, <<"domain-registry">> }

classpath_entries(in) ==
    [i \in DOMAIN in |-> [kind |-> in[i].kind, path |-> in[i].value]]

factorypath_entries(in) ==
    [i \in DOMAIN in |-> [kind |-> in[i].kind, entry_id |-> in[i].value]]

InitXml ==
    /\ pc = "done"
    /\ run = 1
    /\ sys_argv = <<Script>>
    /\ cwd = "/ws"
    /\ dirs = {<<r>> : r \in Roots}
    /\ files = NoFiles
    /\ workspace_directory = Unbound
    /\ bazel_genfiles = Unbound
    /\ bazel_bin = Unbound
    /\ trace = <<>>
    /\ child = NoChild
    /\ abortedAt = "none"
    /\ prev = [pc |-> "none", sys_argv |-> <<>>, dirs |-> dirs, files |-> files,
               workspace_directory |-> Unbound,
               bazel_genfiles |-> Unbound, bazel_bin |-> Unbound]
    /\ fn = "none"
    /\ entries \in SeqsUpTo(Inputs, MaxEntries)
    /\ name \in Names
    /\ doc = <<>>

CallClasspathXml ==
    /\ fn = "none"
    /\ fn' = "classpath_xml"
    /\ doc' = classpath_xml(classpath_entries(entries))
    /\ UNCHANGED <<entries, name, mainVars>>

CallFactorypathXml ==
    /\ fn = "none"
    /\ fn' = "factorypath_xml"
    /\ doc' = factorypath_xml(factorypath_entries(entries))
    /\ UNCHANGED <<entries, name, mainVars>>

CallBuildProject ==
    /\ fn = "none"
    /\ fn' = "build_project"
    /\ doc' = build_project(name)
    /\ UNCHANGED <<entries, name, mainVars>>

NextXml ==
    \/ CallClasspathXml
    \/ CallFactorypathXml
    \/ CallBuildProject

SpecXml == InitXml /\ [][NextXml]_vars

-----------------------------------------------------------------------------
(* Properties of the document builders, checked under SpecXml *)

\* the positions of doc that hold token t
Positions(t) == {i \in DOMAIN doc : doc[i] = t}

\* the k-th smallest member of the set of positions S
Nth(S, k) == CHOOSE x \in S : Cardinality({y \in S : y < x}) = k - 1

\* the text of doc strictly between its first open token and its last
\* close token
Body(open, close) ==
    LET a == CHOOSE i \in Positions(open) : \A j \in Positions(open) : i <= j
        b == CHOOSE i \in Positions(close) : \A j \in Positions(close) : j <= i
    IN  SubSeq(doc, a + 1, b - 1)

\* doc holds exactly one element per entry, in the order of the entries:
\* the k-th element is rendered(k), it is preceded by exactly two spaces,
\* before which stands a newline, and after the first element that newline
\* directly follows the element before it
EntriesInOrder(start, rendered(_)) ==
    LET P == Positions(start)
        N == Len(entries)
    IN  /\ Cardinality(P) = N
        /\ \A k \in 1..N :
            LET p == Nth(P, k) IN
            /\ SubSeq(doc, p, p + Len(rendered(k)) - 1) = rendered(k)
            /\ p > 3
            /\ doc[p - 1] = " " /\ doc[p - 2] = " " /\ doc[p - 3] = "\n"
            /\ k > 1 =>
                    p - 4 = Nth(P, k - 1) + Len(rendered(k - 1)) - 1

\* doc is wrapped by exactly one open and one close tag: nothing follows the
\* close tag, nothing but lead precedes the open tag
Wrapped(lead, open, close) ==
    /\ Cardinality(Positions(open)) = 1
    /\ Cardinality(Positions(close)) = 1
    /\ IsPrefix(lead \o <<open>>, doc)
    /\ doc[Len(doc)] = close

RenderedClasspathEntry(k) ==
    classpath_entry_xml(entries[k].kind, entries[k].value)

RenderedFactorypathEntry(k) ==
    factorypath_entry_xml(entries[k].kind, entries[k].value)

\* C5: for every list of N entries, classpath_xml and factorypath_xml return
\* a document with exactly N entry elements, in the order of the list, each
\* preceded by exactly two spaces, consecutive elements separated by exactly
\* one newline, the whole wrapped by exactly one opening and one closing
\* envelope tag.
C5_EntriesRendered ==
    /\ fn = "classpath_xml" =>
            /\ EntriesInOrder("<classpathentry kind=\"", RenderedClasspathEntry)
            /\ Wrapped(<<XmlHeader, "\n">>, "<classpath>", "</classpath>")
    /\ fn = "factorypath_xml" =>
            /\ EntriesInOrder("<factorypathentry kind=\"", RenderedFactorypathEntry)
            /\ Wrapped(<<>>, "<factorypath>", "</factorypath>")

C5_Witness ==
    /\ fn = "factorypath_xml"
    /\ Len(entries) = MaxEntries
    /\ entries[1] # entries[2]

\* C6 as stated: the output of classpath_xml, of factorypath_xml and of
\* build_project starts with the XML version header line.
C6_AllStartWithHeader ==
    fn # "none" => IsPrefix(<<XmlHeader, "\n">>, doc)

\* C6 amended: the output of classpath_xml and of build_project starts with
\* the XML version header line, directly followed by the opening envelope
\* tag; the output of factorypath_xml starts with the opening <factorypath>
\* tag and contains no version header.
C6_HeaderExceptFactorypath ==
    /\ fn = "classpath_xml" => IsPrefix(<<XmlHeader, "\n", "<classpath>">>, doc)
    /\ fn = "build_project" =>
            IsPrefix(<<XmlHeader, "\n", "<projectDescription>">>, doc)
    /\ fn = "factorypath_xml" =>
            /\ IsPrefix(<<"<factorypath>">>, doc)
            /\ Positions(XmlHeader) = {}

C6_Witness ==
    /\ fn = "factorypath_xml"
    /\ entries # <<>>
    /\ doc[1] = "<factorypath>"

\* C7 as stated: for the empty entry list the text between the opening and
\* the closing envelope tag holds no entry element and is at most a single
\* newline.
C7_EmptyBodyAtMostOneNewline ==
    /\ (fn = "classpath_xml" /\ entries = <<>>) =>
            Body("<classpath>", "</classpath>") \in {<<>>, <<"\n">>}
    /\ (fn = "factorypath_xml" /\ entries = <<>>) =>
            Body("<factorypath>", "</factorypath>") \in {<<>>, <<"\n">>}

\* C7 amended: for the empty entry list the text between the opening and the
\* closing envelope tag holds no entry element and is exactly two newline
\* characters (one empty line).
C7_EmptyBodyTwoNewlines ==
    /\ (fn = "classpath_xml" /\ entries = <<>>) =>
            /\ Body("<classpath>", "</classpath>") = <<"\n", "\n">>
            /\ Positions("<classpathentry kind=\"") = {}
    /\ (fn = "factorypath_xml" /\ entries = <<>>) =>
            /\ Body("<factorypath>", "</factorypath>") = <<"\n", "\n">>
            /\ Positions("<factorypathentry kind=\"") = {}

C7_Witness ==
    /\ fn = "classpath_xml"
    /\ entries = <<>>
    /\ Len(doc) = 6

-----------------------------------------------------------------------------
(* Properties of main, checked under Spec *)

BuildSteps == {"build_all", "build_eclipse_deps", "build_annotation_processors"}

InfoSteps == {"info_workspace", "info_genfiles", "info_bin"}

\* the last step spawned a child that could not be started or exited nonzero
ChildFailed == child.cmd # "none" /\ (~child.started \/ child.returncode # 0)

\* the steps of the current run so far are the first steps of main, in order
TraceInOrder == trace = SubSeq(Order, 1, Len(trace))

\* the root directory main writes under: the answer to bazel info workspace,
\* an empty answer naming the current directory
WorkspaceRoot == IF workspace_directory = <<>> THEN cwd ELSE workspace_directory[1]

SettingsAt(r) == <<r, "/", ".settings">>

FileAt(r, f) == <<r, "/", f>>

PrefsAt(r, f) == <<r, "/", ".settings", "/", f>>

\* C1: no output file is written, no directory made and no bazel info query
\* issued unless the three bazel builds have each exited 0, in order; a build
\* that exits nonzero (or cannot be started) aborts the run at that point,
\* the later builds are not started and the filesystem is as the run found it.
C1_BuildsGateOutput ==
    /\ (\E i \in DOMAIN trace : trace[i] \notin BuildSteps) =>
            /\ Len(trace) > 3
            /\ SubSeq(trace, 1, 3) = SubSeq(Order, 1, 3)
    /\ (child.cmd = "build" /\ ChildFailed) =>
            /\ pc = "aborted"
            /\ abortedAt = trace[Len(trace)]
    /\ (child.cmd = "build" /\ ~ChildFailed) => pc # "aborted"
    /\ (pc \in BuildSteps \/ (pc = "aborted" /\ abortedAt \in BuildSteps)) =>
            /\ files = prev.files
            /\ dirs = prev.dirs
            /\ TraceInOrder
            /\ \A i \in DOMAIN trace : trace[i] \in BuildSteps

C1_Witness ==
    /\ run = 2
    /\ prev.pc = "done"
    /\ pc = "aborted"
    /\ abortedAt = "build_eclipse_deps"
    /\ child.started /\ child.returncode = 1

\* C2: when the bazel info child exits nonzero or cannot be started,
\* bazel_info returns no value and the run aborts, also when the child
\* printed a line before exiting nonzero.
C2_InfoFailureAborts ==
    (child.cmd = "info" /\ (~child.started \/ child.returncode # 0)) =>
        pc = "aborted"

\* the value the bazel_info call of the last step returned
Returned ==
    IF pc = "info_genfiles" THEN workspace_directory
    ELSE IF pc = "write_classpath" THEN bazel_genfiles
    ELSE bazel_bin

\* the last step was a bazel_info call that returned
JustReturned ==
    /\ child.cmd = "info"
    /\ pc \in {"info_genfiles", "write_classpath", "write_factorypath"}

IsBlank(line) == \A i \in DOMAIN line : line[i] \in Whitespace

\* C3 as stated: bazel_info returns the first line that is non-empty after
\* stripping, skipping leading blank lines.
C3_FirstNonEmptyLine ==
    (JustReturned /\ \E i \in DOMAIN child.stdout : ~IsBlank(child.stdout[i])) =>
        LET i == CHOOSE j \in DOMAIN child.stdout :
                    /\ ~IsBlank(child.stdout[j])
                    /\ \A k \in 1..(j - 1) : IsBlank(child.stdout[k])
        IN  Returned = strip(child.stdout[i])

\* C3 amended: bazel_info returns the first line of the output with the
\* whitespace at its ends removed, which is the empty string when that line
\* is blank (leading blank lines are not skipped); when the output has no
\* lines at all the call fails fatally instead of returning.
C3_FirstLineStripped ==
    /\ JustReturned =>
            /\ child.stdout # <<>>
            /\ Returned = strip(child.stdout[1])
            /\ IsBlank(child.stdout[1]) => Returned = <<>>
            /\ Returned # <<>> =>
                    /\ Returned[1] \notin Whitespace
                    /\ Returned[Len(Returned)] \notin Whitespace
    /\ (child.cmd = "info" /\ child.stdout = <<>>) => pc = "aborted"

C3_Witness ==
    /\ JustReturned
    /\ Len(child.stdout) = 2
    /\ IsBlank(child.stdout[1])
    /\ ~IsBlank(child.stdout[2])
    /\ Returned = <<>>

\* the five output files of a run that writes under root r
OutputFiles(r) ==
    { FileAt(r, ".classpath"), FileAt(r, ".project"), FileAt(r, ".factorypath"),
      PrefsAt(r, "org.eclipse.jdt.core.prefs"),
      PrefsAt(r, "org.eclipse.jdt.apt.core.prefs") }

\* this run got the answers the run before it got
SameAnswers ==
    /\ sys_argv = prev.sys_argv
    /\ workspace_directory = prev.workspace_directory
    /\ bazel_genfiles = prev.bazel_genfiles
    /\ bazel_bin = prev.bazel_bin

\* C4: a second run with the same argument and the same build-tool answers
\* as a completed first run does not fail because .settings exists (nor at
\* any file step), and after it each of the five output files holds exactly
\* what it held after the first run.
C4_Idempotent ==
    /\ abortedAt # "makedirs_settings"
    /\ (run > 1 /\ prev.pc = "done" /\ pc = "aborted"
            /\ workspace_directory = prev.workspace_directory) =>
            abortedAt \in BuildSteps \cup InfoSteps
    /\ (run > 1 /\ prev.pc = "done" /\ pc = "done" /\ SameAnswers) =>
            \A f \in OutputFiles(WorkspaceRoot) :
                /\ f \in DOMAIN files
                /\ f \in DOMAIN prev.files
                /\ files[f] = prev.files[f]

C4_Witness ==
    /\ run = 2
    /\ prev.pc = "done"
    /\ pc = "done"
    /\ SameAnswers
    /\ SettingsAt(cwd) \in prev.dirs

\* the .project file of the current run was written
ProjectWritten ==
    /\ \E i \in DOMAIN trace : trace[i] = "write_project"
    /\ abortedAt # "write_project"

\* C8: the .project file main writes at the workspace root holds
\* <name>X</name>, X being the first command-line argument when one is
\* given (further arguments ignored) and domain-registry when none is; but
\* for X the content is the same fixed template for every name.
C8_ProjectName ==
    ProjectWritten =>
        LET f == FileAt(WorkspaceRoot, ".project")
            X == IF Len(sys_argv) >= 2 THEN sys_argv[2] ELSE <<"domain-registry">>
        IN  /\ f \in DOMAIN files
            /\ \E i \in DOMAIN files[f] :
                /\ files[f][i] = "<name>"
                /\ SubSeq(files[f], i, i + Len(X) + 1) = <<"<name>">> \o X \o <<"</name>">>
                /\ SubSeq(files[f], 1, i) \o SubSeq(files[f], i + Len(X) + 1, Len(files[f]))
                        = build_project(<<>>)

C8_Witness ==
    /\ pc = "done"
    /\ Len(sys_argv) = 3
    /\ FileAt(WorkspaceRoot, ".project") \in DOMAIN files

\* C9: each external step of main happens at most once and in program
\* order, and a failure at any step (a child that cannot be started or exits
\* nonzero, a file that cannot be written) aborts the run so that no later
\* step is performed.
C9_LinearAbortOnFailure ==
    /\ TraceInOrder
    /\ pc = "done" => trace = Order
    /\ (pc \notin {"done", "aborted"} /\ trace # <<>>) => pc = after(trace[Len(trace)])
    /\ ChildFailed => (pc = "aborted" /\ abortedAt = trace[Len(trace)])

\* C10: main makes .settings in the current directory only, never under the
\* queried workspace root; when the two differ and <root>/.settings does
\* not exist, a run whose build-tool calls all succeed aborts at the first
\* preference-file write, with .classpath, .project and .factorypath written
\* at the root, .settings present in the current directory and neither
\* preference file written; the preference files are written only when
\* <root>/.settings exists.
C10_SettingsInCwd ==
    /\ dirs \ prev.dirs \subseteq {SettingsAt(cwd)}
    /\ pc \in {"write_jdt_core_prefs", "write_jdt_apt_prefs", "done"} =>
            SettingsAt(cwd) \in dirs
    /\ pc = "aborted" =>
            abortedAt \in BuildSteps \cup InfoSteps \cup {"write_jdt_core_prefs"}
    /\ (pc = "aborted" /\ abortedAt = "write_jdt_core_prefs") =>
            /\ WorkspaceRoot # cwd
            /\ SettingsAt(WorkspaceRoot) \notin prev.dirs
            /\ SettingsAt(WorkspaceRoot) \notin dirs
            /\ SettingsAt(cwd) \in dirs
            /\ FileAt(WorkspaceRoot, ".classpath") \in DOMAIN files
            /\ FileAt(WorkspaceRoot, ".project") \in DOMAIN files
            /\ FileAt(WorkspaceRoot, ".factorypath") \in DOMAIN files
            /\ \A r \in Roots, f \in {"org.eclipse.jdt.core.prefs",
                                       "org.eclipse.jdt.apt.core.prefs"} :
                    PrefsAt(r, f) \in DOMAIN files <=> PrefsAt(r, f) \in DOMAIN prev.files
    /\ pc \in {"write_jdt_apt_prefs", "done"} =>
            /\ WorkspaceRoot = cwd \/ SettingsAt(WorkspaceRoot) \in prev.dirs
            /\ PrefsAt(WorkspaceRoot, "org.eclipse.jdt.core.prefs") \in DOMAIN files
    /\ (pc = "write_jdt_core_prefs" /\ WorkspaceRoot # cwd
            /\ SettingsAt(WorkspaceRoot) \notin prev.dirs) =>
            ~CanOpenForWrite(cwd, dirs, jdt_core_prefs_path(workspace_directory))

C10_Witness ==
    /\ pc = "aborted"
    /\ abortedAt = "write_jdt_core_prefs"
    /\ SettingsAt(cwd) \notin prev.dirs
    /\ SettingsAt(cwd) \in dirs

=============================================================================
